---- MODULE Spec2Model ----
\* Tunneled FM-index (tfm_index.hpp, tfm_index_invert.cpp): the compactor and
\* assembly of construct_tfm_index, the PFWG loader, symbol_frequencies,
\* backwardstep / our_end, and the untunnel driver.
\*
\* Vectors of the program are 0-based; they are modelled as TLA+ sequences,
\* so element i of the program is s[i + 1] here (operator At).
EXTENDS Integers, Sequences, FiniteSets, TLC

VARIABLES pc, T, wt_L, dout, din, dout_orig, din_orig, ci, p, q, L_buf,
          files, tfm, pos, out, steps, uninit_read, oob, C_freq, untunneled

vars == <<pc, T, wt_L, dout, din, dout_orig, din_orig, ci, p, q, L_buf,
          files, tfm, pos, out, steps, uninit_read, oob, C_freq, untunneled>>

\* ---------------------------------------------------------------- bounds
MaxLen == 7
MaxK == 2
MaxSym == 2

\* ------------------------------------------------------- vector helpers
At(s, i) == s[i + 1]

SetAt(s, i, v) == [s EXCEPT ![i + 1] = v]

Bit == {0, 1}

popcount(bv) == Cardinality({j \in 1..Len(bv) : bv[j] = 1})

\* rank_support: number of 1-bits in positions [0, i)
Rank1(bv, i) == Cardinality({j \in 1..i : bv[j] = 1})

\* select_support: 0-based position of the k-th 1-bit (1 <= k <= popcount)
Select1(bv, k) == CHOOSE j \in 0..(Len(bv) - 1) : bv[j + 1] = 1 /\ Rank1(bv, j + 1) = k

\* wavelet tree: inverse_select(i) = (rank_{L[i]}(i), L[i])
inverse_select(L, i) ==
  LET c == At(L, i)
  IN [first |-> Cardinality({j \in 1..i : L[j] = c}), second |-> c]

\* wavelet tree: sigma = number of distinct symbols
Sigma(L) == Cardinality({L[j] : j \in 1..Len(L)})

\* ------------------------------------------------- symbol_frequencies
\* cnt[lo] + ... + cnt[hi]
RECURSIVE RangeSum(_, _, _)
RangeSum(cnt, lo, hi) ==
  IF lo = hi THEN cnt[lo]
  ELSE RangeSum(cnt, lo, (lo + hi) \div 2) + RangeSum(cnt, ((lo + hi) \div 2) + 1, hi)

\* value of C[j] after the loop "C[i + 1] += C[i]" has passed it
PrefixSum(cnt, j) == RangeSum(cnt, 0, j)

\* symbol_frequencies(C, L_buf, sigma): C has sigma + 1 entries; the counting
\* loop writes C[L[i] + 1], the second loop turns the counts into prefix sums.
symbol_frequencies(L, sigma) ==
  LET cnt == [j \in 0..sigma |-> Cardinality({x \in 1..Len(L) : L[x] + 1 = j})]
  IN [j \in 1..(sigma + 1) |-> PrefixSum(cnt, j - 1)]

\* the counting loop stays inside C only when every symbol is below sigma
FreqInBounds(L, sigma) == \A x \in 1..Len(L) : L[x] + 1 <= sigma

\* --------------------------------------------- BWT and the DBG marker
\* rotation of the text starting at 0-based position s
Rot(txt, s) == [j \in 1..Len(txt) |-> txt[((s + j - 1) % Len(txt)) + 1]]

LexLess(a, b) ==
  \E j \in 1..Len(a) : a[j] < b[j] /\ \A l \in 1..(j - 1) : a[l] = b[l]

\* SuffixArray[r + 1] is the start position of the rotation in row r (0-based)
\* of the sorted rotations; the rotations are distinct (unique terminator)
SuffixArray(txt) ==
  LET n == Len(txt)
      rots == SubSeq([s \in 1..n |-> SubSeq(Rot(txt, s - 1), 1, n)], 1, n)
      rk == SubSeq([s \in 1..n |->
                      Cardinality({t \in 1..n : LexLess(rots[t], rots[s])})],
                   1, n)
  IN SubSeq([r \in 1..n |-> (CHOOSE s \in 1..n : rk[s] = r - 1) - 1], 1, n)

BWT(txt) ==
  LET sa == SuffixArray(txt)
  IN SubSeq([r \in 1..Len(txt) |->
               txt[((sa[r] + Len(txt) - 1) % Len(txt)) + 1]], 1, Len(txt))

\* B[i] = 1 iff row i is the first row of a k-mer interval; B[m0] = 1.
\* The k-mer of a row is the first k symbols of its rotation, read cyclically.
find_min_dbg(txt, k) ==
  LET n == Len(txt)
      sa == SuffixArray(txt)
      kmer(r) == [j \in 1..k |-> txt[((sa[r + 1] + j - 1) % n) + 1]]
  IN SubSeq([r \in 1..(n + 1) |->
               IF r = 1 \/ r = n + 1 THEN 1
               ELSE IF kmer(r - 1) # kmer(r - 2) THEN 1 ELSE 0], 1, n + 1)

LFfull(L, i) ==
  Cardinality({j \in 1..Len(L) : L[j] < At(L, i)}) + inverse_select(L, i).first

\* k-mer intervals [a, b) of height >= 2 whose rows carry one symbol and whose
\* LF-image is a whole k-mer interval: the collapsed blocks
Collapsible(L, B) ==
  {ab \in (0..(Len(L) - 1)) \X (1..Len(L)) :
     /\ ab[2] - ab[1] >= 2
     /\ At(B, ab[1]) = 1 /\ At(B, ab[2]) = 1
     /\ \A r \in (ab[1] + 1)..(ab[2] - 1) : At(B, r) = 0
     /\ \A r \in ab[1]..(ab[2] - 1) : At(L, r) = At(L, ab[1])
     /\ At(B, LFfull(L, ab[1])) = 1
     /\ At(B, LFfull(L, ab[1]) + (ab[2] - ab[1])) = 1}

\* mark_prefix_intervals: din is cleared on the non-first rows of a collapsed
\* block, dout on the non-first rows of its LF-image; sentinels stay 1
mark_prefix_intervals(L, B) ==
  LET blocks == Collapsible(L, B)
  IN [dout |-> [r \in 1..(Len(L) + 1) |->
                  IF \E ab \in blocks :
                       /\ r - 1 > LFfull(L, ab[1])
                       /\ r - 1 < LFfull(L, ab[1]) + (ab[2] - ab[1])
                  THEN 0 ELSE 1],
      din |-> [r \in 1..(Len(L) + 1) |->
                  IF \E ab \in blocks : r - 1 > ab[1] /\ r - 1 < ab[2]
                  THEN 0 ELSE 1]]

\* texts over 0..MaxSym with a unique minimal terminator 0 at the end
Texts ==
  UNION {{[j \in 1..n |-> IF j = n THEN 0 ELSE body[j]] :
            body \in [1..(n - 1) -> 1..MaxSym]} : n \in 1..MaxLen}

\* ------------------------------------------------------------- the index
\* a value the program leaves undetermined, standing for any value of its
\* type: a member that has no initializer (nothing reads it before a
\* construction or a load assigns it), or what a read outside a vector yields
Indeterminate == "indeterminate"

\* a default-constructed tfm_index: empty vectors, unbound supports; text_len
\* has no initializer
NoIndex ==
  [text_len |-> Indeterminate, L |-> <<>>, C |-> <<>>, dout |-> <<>>, din |-> <<>>,
   dout_rank_init |-> FALSE, dout_select_init |-> FALSE,
   din_rank_init |-> FALSE, din_select_init |-> FALSE]

\* a side file: present or not, and its bytes
File(bytes) == [present |-> TRUE, bytes |-> bytes]

Missing == [present |-> FALSE, bytes |-> <<>>]

\* index is the stream a serialized index was written to (<<>>: none)
NoFiles ==
  [original_size |-> 0, L |-> <<>>, din |-> Missing, dout |-> Missing,
   index |-> <<>>]

\* nav_type end(): (0, 0)
end == [i |-> 0, o |-> 0]

\* ---------------------------------------------------------- the compactor
\* variant: the second copy is made for every row (its test is dropped)
compact_iter_noguard(L, st, i) ==
  LET a == IF At(st.din, i) = 1
           THEN [st EXCEPT !.L_buf = Append(@, At(L, i)),
                           !.dout = SetAt(@, st.p, At(st.dout, i)),
                           !.p = @ + 1]
           ELSE st
  IN [a EXCEPT !.din = SetAt(@, a.q, At(a.din, i)), !.q = @ + 1]

\* variant: the write cursors are advanced before the write (dout[++p])
compact_iter_preinc(L, st, i) ==
  LET a == IF At(st.din, i) = 1
           THEN [st EXCEPT !.L_buf = Append(@, At(L, i)),
                           !.dout = SetAt(@, st.p + 1, At(st.dout, i)),
                           !.p = @ + 1]
           ELSE st
  IN IF At(a.dout, i) = 1
     THEN [a EXCEPT !.din = SetAt(@, a.q + 1, At(a.din, i)), !.q = @ + 1]
     ELSE a

\* one iteration of "remove redundant entries from L, dout and din": the
\* vectors are overwritten in place while they are scanned
compact_iter(L, st, i) ==
  LET a == IF At(st.din, i) = 1
           THEN [st EXCEPT !.L_buf = Append(@, At(L, i)),
                           !.dout = SetAt(@, st.p, At(st.dout, i)),
                           !.p = @ + 1]
           ELSE st
  IN IF At(a.dout, i) = 1
     THEN [a EXCEPT !.din = SetAt(@, a.q, At(a.din, i)), !.q = @ + 1]
     ELSE a

\* variant: the sentinel of din is not written (din is cut at q)
compact_finish_nosentinel(st) ==
  [st EXCEPT !.dout = SubSeq(SetAt(@, st.p, 1), 1, st.p + 1),
             !.din = SubSeq(@, 1, st.q),
             !.p = @ + 1]

\* dout[p++] = 1; din[q++] = 1; dout.resize(p); din.resize(q)
compact_finish(st) ==
  [st EXCEPT !.dout = SubSeq(SetAt(@, st.p, 1), 1, st.p + 1),
             !.din = SubSeq(SetAt(@, st.q, 1), 1, st.q + 1),
             !.p = @ + 1,
             !.q = @ + 1]

\* construct_tfm_index(tfm_index, text_len, L_buf, dout, din): the assembly.
\* dout_rank and din_select are left default-constructed.
construct_tfm_index(text_len, Lb, dout_new, din_new) ==
  [text_len |-> text_len,
   L |-> Lb,
   C |-> symbol_frequencies(Lb, Sigma(Lb)),
   dout |-> dout_new,
   din |-> din_new,
   dout_rank_init |-> FALSE,
   dout_select_init |-> TRUE,
   din_rank_init |-> TRUE,
   din_select_init |-> FALSE]

\* lines 218-225: the wavelet tree over the BWT and C of sigma + 1 entries,
\* every write C[L[i] + 1] inside C
BuildC ==
  /\ pc = "start"
  /\ FreqInBounds(wt_L, Sigma(wt_L))
  /\ C_freq' = symbol_frequencies(wt_L, Sigma(wt_L))
  /\ pc' = "compact"
  /\ UNCHANGED <<T, wt_L, dout, din, dout_orig, din_orig, ci, p, q, L_buf,
                 files, tfm, pos, out, steps, uninit_read, oob, untunneled>>

\* lines 218-225 with a symbol >= sigma in the BWT: a write C[L[i] + 1] is past
\* the end of C, undefined; the build faults or goes on with the in-range
\* counts
BuildCOverrun ==
  /\ pc = "start"
  /\ ~FreqInBounds(wt_L, Sigma(wt_L))
  /\ oob' = TRUE
  /\ \/ /\ pc' = "crashed"
        /\ UNCHANGED C_freq
     \/ /\ pc' = "compact"
        /\ C_freq' = symbol_frequencies(wt_L, Sigma(wt_L))
  /\ UNCHANGED <<T, wt_L, dout, din, dout_orig, din_orig, ci, p, q, L_buf,
                 files, tfm, pos, out, steps, uninit_read, untunneled>>

CompactStep ==
  /\ pc = "compact"
  /\ ci < Len(wt_L)
  /\ LET st == compact_iter(wt_L, [dout |-> dout, din |-> din, p |-> p,
                                    q |-> q, L_buf |-> L_buf], ci)
     IN /\ dout' = st.dout
        /\ din' = st.din
        /\ p' = st.p
        /\ q' = st.q
        /\ L_buf' = st.L_buf
  /\ ci' = ci + 1
  /\ UNCHANGED <<pc, T, wt_L, dout_orig, din_orig, files, tfm, pos, out, steps,
                 uninit_read, oob, C_freq, untunneled>>

\* the sentinels, the resize and the assembly, every write of
\* symbol_frequencies inside C
CompactFinish ==
  /\ pc = "compact"
  /\ ci = Len(wt_L)
  /\ FreqInBounds(L_buf, Sigma(L_buf))
  /\ LET st == compact_finish([dout |-> dout, din |-> din, p |-> p, q |-> q,
                               L_buf |-> L_buf])
     IN /\ dout' = st.dout
        /\ din' = st.din
        /\ p' = st.p
        /\ q' = st.q
        /\ tfm' = construct_tfm_index(Len(wt_L), L_buf, st.dout, st.din)
  /\ pc' = "ready"
  /\ pos' = end
  /\ UNCHANGED <<T, wt_L, dout_orig, din_orig, ci, L_buf, files, out, steps,
                 uninit_read, oob, C_freq, untunneled>>

\* the same with a symbol >= sigma in the new L: symbol_frequencies writes
\* past the end of C, undefined; the assembly faults, or it returns the index
\* with the in-range counts
CompactFinishOverrun ==
  /\ pc = "compact"
  /\ ci = Len(wt_L)
  /\ ~FreqInBounds(L_buf, Sigma(L_buf))
  /\ oob' = TRUE
  /\ LET st == compact_finish([dout |-> dout, din |-> din, p |-> p, q |-> q,
                               L_buf |-> L_buf])
     IN /\ dout' = st.dout
        /\ din' = st.din
        /\ p' = st.p
        /\ q' = st.q
        /\ \/ /\ pc' = "crashed"
              /\ UNCHANGED <<tfm, pos>>
           \/ /\ tfm' = construct_tfm_index(Len(wt_L), L_buf, st.dout, st.din)
              /\ pc' = "ready"
              /\ pos' = end
  /\ UNCHANGED <<T, wt_L, dout_orig, din_orig, ci, L_buf, files, out, steps,
                 uninit_read, C_freq, untunneled>>

\* ------------------------------------------------------ the PFWG loader
\* C = std::vector<uint64_t>(255, 0)
Csize8 == 255

\* symbol_frequencies(C, int_vector<8> L): the first loop counts at
\* C[L[i] + 1] (a write at an index >= 255 is outside C and is not held by
\* it), the second loop, i = 0 .. C.size() - 2, leaves in C[j] the sum of the
\* counts at the indices 0..j, that is the number of i with L[i] + 1 <= j
symbol_frequencies8(L) ==
  [j \in 1..Csize8 |-> Cardinality({x \in 1..Len(L) : L[x] + 1 <= j - 1})]

\* some write C[L[i] + 1] falls outside the 255 entries
FreqOutOfBounds8(L) == \E x \in 1..Len(L) : L[x] + 1 >= Csize8

\* the 8 bits of a byte, most significant first: 1 & (buffer >> (7 - j))
ByteBits(buffer) == [j \in 1..8 |-> (buffer \div (2 ^ (8 - j))) % 2]

\* load_bitvector: byte i is fread into buffer (fread of nothing leaves the
\* buffer as it was; the test e < 0 never holds), its bits are stored until
\* cnt = n
RECURSIVE load_loop(_, _, _, _, _)
load_loop(bytes, n, i, buffer, B) ==
  IF i >= (n + 7) \div 8 \/ Len(B) = n THEN B
  ELSE LET buf == IF i < Len(bytes) THEN bytes[i + 1] ELSE buffer
           room == IF n - Len(B) < 8 THEN n - Len(B) ELSE 8
       IN load_loop(bytes, n, i + 1, buf, B \o SubSeq(ByteBits(buf), 1, room))

load_bitvector(bytes, n) == load_loop(bytes, n, 0, 0, <<>>)

\* construct_from_pfwg (tfm_index.hpp): text_len is the size of the original
\* file; all four supports are initialized
construct_from_pfwg(original_size, L, din_new, dout_new) ==
  [text_len |-> original_size,
   L |-> L,
   C |-> symbol_frequencies8(L),
   dout |-> dout_new,
   din |-> din_new,
   dout_rank_init |-> TRUE,
   dout_select_init |-> TRUE,
   din_rank_init |-> TRUE,
   din_select_init |-> TRUE]

\* both side files could be opened, every write of symbol_frequencies inside C
ConstructFromPfwg ==
  /\ pc = "load"
  /\ files.din.present /\ files.dout.present
  /\ ~FreqOutOfBounds8(files.L)
  /\ tfm' = construct_from_pfwg(files.original_size, files.L,
               load_bitvector(files.din.bytes, Len(files.L) + 1),
               load_bitvector(files.dout.bytes, Len(files.L) + 1))
  /\ pc' = "ready"
  /\ pos' = end
  /\ UNCHANGED <<T, wt_L, dout, din, dout_orig, din_orig, ci, p, q, L_buf,
                 files, out, steps, uninit_read, oob, C_freq, untunneled>>

\* both side files could be opened, .L holds a byte >= 254: symbol_frequencies
\* writes past the end of C, undefined; the load faults or returns the index
\* with the in-range counts
ConstructFromPfwgOverrun ==
  /\ pc = "load"
  /\ files.din.present /\ files.dout.present
  /\ FreqOutOfBounds8(files.L)
  /\ oob' = TRUE
  /\ \/ /\ pc' = "crashed"
        /\ UNCHANGED <<tfm, pos>>
     \/ /\ tfm' = construct_from_pfwg(files.original_size, files.L,
                    load_bitvector(files.din.bytes, Len(files.L) + 1),
                    load_bitvector(files.dout.bytes, Len(files.L) + 1))
        /\ pc' = "ready"
        /\ pos' = end
  /\ UNCHANGED <<T, wt_L, dout, din, dout_orig, din_orig, ci, p, q, L_buf,
                 files, out, steps, uninit_read, C_freq, untunneled>>

\* bits a load leaves when the file could not be opened and fread delivers
\* nothing: every byte is the initial buffer
LoadedBits(f, n) ==
  IF f.present THEN load_bitvector(f.bytes, n) ELSE load_bitvector(<<>>, n)

\* fopen returned NULL and fread / fclose are called on it: undefined; the
\* load faults, or fread delivers nothing and the index is built (with a
\* write past the end of C when .L holds a byte >= 254)
ConstructFromPfwgNullStream ==
  /\ pc = "load"
  /\ ~files.din.present \/ ~files.dout.present
  /\ \/ /\ pc' = "crashed"
        /\ UNCHANGED <<tfm, pos, oob>>
     \/ /\ tfm' = construct_from_pfwg(files.original_size, files.L,
                    LoadedBits(files.din, Len(files.L) + 1),
                    LoadedBits(files.dout, Len(files.L) + 1))
        /\ pc' = "ready"
        /\ pos' = end
        /\ oob' = (oob \/ FreqOutOfBounds8(files.L))
  /\ UNCHANGED <<T, wt_L, dout, din, dout_orig, din_orig, ci, p, q, L_buf,
                 files, out, steps, uninit_read, C_freq, untunneled>>

\* ------------------------------------------------------ serialize / load
\* serialize(out): the members in the order they are written; a support is
\* written with the content it has
serialize(idx) ==
  <<idx.text_len, idx.L, idx.C, idx.dout, idx.dout_rank_init,
    idx.dout_select_init, idx.din, idx.din_rank_init, idx.din_select_init>>

\* load(in): the members are read in the same order; each support gets the
\* content read and is bound to the vector just loaded
load(in) ==
  [text_len |-> in[1], L |-> in[2], C |-> in[3],
   dout |-> in[4], dout_rank_init |-> in[5], dout_select_init |-> in[6],
   din |-> in[7], din_rank_init |-> in[8], din_select_init |-> in[9]]

\* the index is serialized to a stream
Serialize ==
  /\ pc = "ready"
  /\ files.index = <<>>
  /\ files' = [files EXCEPT !.index = serialize(tfm)]
  /\ pc' = "stored"
  /\ UNCHANGED <<T, wt_L, dout, din, dout_orig, din_orig, ci, p, q, L_buf,
                 tfm, pos, out, steps, uninit_read, oob, C_freq, untunneled>>

\* an index loads the stream: every member is overwritten
Load ==
  /\ pc = "stored"
  /\ tfm' = load(files.index)
  /\ pc' = "ready"
  /\ pos' = end
  /\ UNCHANGED <<T, wt_L, dout, din, dout_orig, din_orig, ci, p, q, L_buf,
                 files, out, steps, uninit_read, oob, C_freq, untunneled>>

\* ------------------------------------------------------------ navigator
\* row reached by the LF-mapping: C[c] + rank_c(i)
bs_lf(idx, ps) ==
  LET is == inverse_select(idx.L, ps.i) IN At(idx.C, is.second) + is.first

\* variant: the offset is cleared at the end of every step
backwardstep_clear_o(idx, ps, sel_din) ==
  LET c == inverse_select(idx.L, ps.i).second
      i1 == bs_lf(idx, ps)
      din_rank_ip1 == Rank1(idx.din, i1 + 1)
      o1 == IF At(idx.din, i1) = 0 THEN i1 - sel_din ELSE ps.o
      i2 == Select1(idx.dout, din_rank_ip1)
  IN IF At(idx.dout, i2 + 1) = 0
     THEN [c |-> c, i |-> i2 + o1, o |-> 0]
     ELSE [c |-> c, i |-> i2, o |-> 0]

\* backwardstep(pos); sel_din is the value the call din_select(din_rank_ip1)
\* returns when it is made
backwardstep(idx, ps, sel_din) ==
  LET c == inverse_select(idx.L, ps.i).second
      i1 == bs_lf(idx, ps)
      din_rank_ip1 == Rank1(idx.din, i1 + 1)
      o1 == IF At(idx.din, i1) = 0 THEN i1 - sel_din ELSE ps.o
      i2 == Select1(idx.dout, din_rank_ip1)
  IN IF At(idx.dout, i2 + 1) = 0
     THEN [c |-> c, i |-> i2 + o1, o |-> 0]
     ELSE [c |-> c, i |-> i2, o |-> o1]

\* every index backwardstep touches is inside its vector, in program order
AccessOK(idx, ps) ==
  /\ ps.i < Len(idx.L)
  /\ At(idx.L, ps.i) < Len(idx.C)
  /\ bs_lf(idx, ps) < Len(idx.din)
  /\ Rank1(idx.din, bs_lf(idx, ps) + 1) >= 1
  /\ Rank1(idx.din, bs_lf(idx, ps) + 1) <= popcount(idx.dout)
  /\ Select1(idx.dout, Rank1(idx.din, bs_lf(idx, ps) + 1)) + 1 < Len(idx.dout)

\* the step lands on a row with din[i] = 0 and so calls din_select
CallsDinSelect(idx, ps) == At(idx.din, bs_lf(idx, ps)) = 0

\* our_end still has a call to make: for (i = 1; i < text_len; i++)
MoreSteps == pc = "ready" /\ steps + 1 < tfm.text_len

\* a backward step whose every read is defined
NavStep ==
  /\ MoreSteps
  /\ AccessOK(tfm, pos)
  /\ CallsDinSelect(tfm, pos) => tfm.din_select_init
  /\ LET r == backwardstep(tfm, pos,
                Select1(tfm.din, Rank1(tfm.din, bs_lf(tfm, pos) + 1)))
     IN /\ pos' = [i |-> r.i, o |-> r.o]
        /\ out' = Append(out, r.c)
  /\ steps' = steps + 1
  /\ UNCHANGED <<pc, T, wt_L, dout, din, dout_orig, din_orig, ci, p, q, L_buf,
                 files, tfm, uninit_read, oob, C_freq, untunneled>>

\* a backward step that calls din_select on a default-constructed support:
\* undefined; the call faults or returns some value
NavUninit ==
  /\ MoreSteps
  /\ AccessOK(tfm, pos)
  /\ CallsDinSelect(tfm, pos)
  /\ ~tfm.din_select_init
  /\ uninit_read' = TRUE
  /\ \/ /\ pc' = "crashed"
        /\ UNCHANGED <<pos, out, steps>>
     \/ /\ \E g \in 0..bs_lf(tfm, pos) :
             LET r == backwardstep(tfm, pos, g)
             IN /\ pos' = [i |-> r.i, o |-> r.o]
                /\ out' = Append(out, r.c)
        /\ steps' = steps + 1
        /\ pc' = pc
  /\ UNCHANGED <<T, wt_L, dout, din, dout_orig, din_orig, ci, p, q, L_buf,
                 files, tfm, oob, C_freq, untunneled>>

\* our_end still has a call to make after a step that read outside a vector:
\* the loop goes on from the indeterminate position
MoreStepsAstray == pc = "astray" /\ steps + 1 < tfm.text_len

\* a backward step that reads outside a vector, from a row outside [0, m) or
\* with an argument of select outside 1..popcount, or from the indeterminate
\* position such a step left: undefined; it faults or returns with a character
\* and a position that are indeterminate, and our_end goes on calling
NavFault ==
  /\ \/ MoreSteps /\ ~AccessOK(tfm, pos)
     \/ MoreStepsAstray
  /\ oob' = TRUE
  /\ \/ /\ pc' = "crashed"
        /\ UNCHANGED <<pos, out, steps>>
     \/ /\ pos' = [i |-> Indeterminate, o |-> Indeterminate]
        /\ out' = Append(out, Indeterminate)
        /\ steps' = steps + 1
        /\ pc' = "astray"
  /\ UNCHANGED <<T, wt_L, dout, din, dout_orig, din_orig, ci, p, q, L_buf,
                 files, tfm, uninit_read, C_freq, untunneled>>

\* --------------------------------------- construction pipeline from a text
InitPipe ==
  \E txt \in Texts, k \in 1..MaxK :
    /\ T = txt
    /\ \E bwt \in {BWT(txt)}, B \in {find_min_dbg(txt, k)} :
         \E m \in {mark_prefix_intervals(bwt, B)} :
           /\ wt_L = bwt
           /\ dout = m.dout /\ din = m.din
           /\ dout_orig = m.dout /\ din_orig = m.din
    /\ pc = "start"
    /\ ci = 0 /\ p = 0 /\ q = 0 /\ L_buf = <<>>
    /\ files = NoFiles /\ tfm = NoIndex /\ pos = end /\ out = <<>>
    /\ steps = 0 /\ uninit_read = FALSE /\ oob = FALSE
    /\ C_freq = <<>> /\ untunneled = <<>>

NextPipe ==
  \/ BuildC \/ BuildCOverrun
  \/ CompactStep \/ CompactFinish \/ CompactFinishOverrun
  \/ NavStep \/ NavUninit \/ NavFault

SpecPipe == InitPipe /\ [][NextPipe]_vars

\* C1: the k-th backward step from end() returns T[n-1-k]; stated for the
\* runs in which no access has been out of range
C1_ReverseText ==
  ~oob =>
    /\ pc # "crashed"
    /\ \A k \in 1..Len(out) : out[k] = At(T, Len(T) - 1 - k)

\* C4: every support a backward step reads was initialized by the
\* construction: no backward step, also none that lands on a row with
\* din[i] = 0, reads a support that was never initialized
C4_NoUninitRead == uninit_read = FALSE

\* --------------------------- the compactor on arbitrary marker outputs
MaxAny == 3

\* rows 0..n-1 of s whose mask bit is 1, in order
RECURSIVE Keep(_, _, _)
Keep(s, mask, n) ==
  IF n = 0 THEN <<>>
  ELSE Keep(s, mask, n - 1) \o (IF mask[n] = 1 THEN <<s[n]>> ELSE <<>>)

\* reference compactor: reads untouched copies, writes fresh vectors
RefCompact(L, d_out, d_in) ==
  [L |-> Keep(L, d_in, Len(L)),
   dout |-> Keep(d_out, d_in, Len(L)) \o <<1>>,
   din |-> Keep(d_in, d_out, Len(L)) \o <<1>>]

InitAny ==
  \E m0 \in 1..MaxAny :
    \E L \in [1..m0 -> 0..1], d_out \in [1..(m0 + 1) -> Bit],
       d_in \in [1..(m0 + 1) -> Bit] :
      /\ wt_L = L
      /\ dout = d_out /\ din = d_in
      /\ dout_orig = d_out /\ din_orig = d_in
      /\ T = <<>>
      /\ pc = "compact"
      /\ ci = 0 /\ p = 0 /\ q = 0 /\ L_buf = <<>>
      /\ files = NoFiles /\ tfm = NoIndex /\ pos = end /\ out = <<>>
      /\ steps = 0 /\ uninit_read = FALSE /\ oob = FALSE
      /\ C_freq = <<>> /\ untunneled = <<>>

NextCompact == CompactStep \/ CompactFinish \/ CompactFinishOverrun

SpecCompact == InitAny /\ [][NextCompact]_vars

\* the assembly has returned an index
Built == pc = "ready"

\* the pass and its tail (lines 254-269) are done: dout, din and L_buf hold
\* the compactor's result
Compacted == pc \notin {"start", "compact"} /\ ci = Len(wt_L)

\* C5: after the pass over the marker's vectors p = q, both new bitvectors
\* have length m + 1 with m = |new L| = popcount of the original din over the
\* rows [0, m0), and both end with a 1
C5_CursorsEqual ==
  Compacted =>
    /\ p = q
    /\ Len(dout) = Len(L_buf) + 1
    /\ Len(din) = Len(L_buf) + 1
    /\ Len(L_buf) = Rank1(din_orig, Len(wt_L))
    /\ dout[Len(dout)] = 1
    /\ din[Len(din)] = 1

\* C5 witness: an index was built and the pass removed rows
C5_Witness ==
  /\ pc = "ready" /\ Compacted
  /\ Len(L_buf) < Len(wt_L) /\ p = Len(L_buf) + 1

\* C6: after construction (the compactor pass followed by the assembly) the
\* number of 1-bits of the index's dout equals that of its din
C6_PopcountEqual == Built => popcount(tfm.dout) = popcount(tfm.din)

\* C6 witness: an index was built whose two bitvectors both have cleared bits
\* and differ from each other
C6_Witness ==
  /\ Built
  /\ tfm.dout # tfm.din
  /\ popcount(tfm.dout) < Len(tfm.dout)
  /\ popcount(tfm.din) < Len(tfm.din)

\* C10: during the pass p <= i and q <= i and the rows not yet scanned still
\* hold their original bits; the result equals the reference compactor's
C10_InPlaceSafe ==
  /\ pc = "compact" =>
       /\ p <= ci /\ q <= ci
       /\ \A j \in (ci + 1)..Len(dout_orig) :
            dout[j] = dout_orig[j] /\ din[j] = din_orig[j]
  /\ Compacted =>
       LET ref == RefCompact(wt_L, dout_orig, din_orig)
       IN L_buf = ref.L /\ dout = ref.dout /\ din = ref.din

\* C10 witness: a finished pass that wrote below the read cursor (p < i, q < i)
C10_Witness ==
  /\ pc = "ready" /\ Compacted
  /\ p < Len(wt_L) /\ q < Len(wt_L)
  /\ Len(L_buf) >= 1
  /\ dout # dout_orig /\ din # din_orig

\* ------------------------------------------------ symbol_frequencies alone
MaxFreqLen == 3

\* bytes at both ends of the byte range
ByteSample == {0, 1, 253, 254, 255}

InitFreq ==
  \E n \in 1..MaxFreqLen :
    \E L \in [1..n -> ByteSample] :
      /\ files = [NoFiles EXCEPT !.L = L]
      /\ pc = "freq"
      /\ T = <<>> /\ wt_L = <<>> /\ dout = <<>> /\ din = <<>>
      /\ dout_orig = <<>> /\ din_orig = <<>>
      /\ ci = 0 /\ p = 0 /\ q = 0 /\ L_buf = <<>>
      /\ tfm = NoIndex /\ pos = end /\ out = <<>>
      /\ steps = 0 /\ uninit_read = FALSE /\ oob = FALSE
      /\ C_freq = <<>> /\ untunneled = <<>>

\* symbol_frequencies(m_C, L) with every write inside C
SymbolFrequencies ==
  /\ pc = "freq"
  /\ ~FreqOutOfBounds8(files.L)
  /\ C_freq' = symbol_frequencies8(files.L)
  /\ pc' = "freq_done"
  /\ UNCHANGED <<T, wt_L, dout, din, dout_orig, din_orig, ci, p, q, L_buf,
                 files, tfm, pos, out, steps, uninit_read, oob, untunneled>>

\* symbol_frequencies(m_C, L) writing past the end of C: undefined; the call
\* faults or returns with the in-range counts
SymbolFrequenciesOverrun ==
  /\ pc = "freq"
  /\ FreqOutOfBounds8(files.L)
  /\ oob' = TRUE
  /\ \/ /\ pc' = "crashed"
        /\ UNCHANGED C_freq
     \/ /\ pc' = "freq_done"
        /\ C_freq' = symbol_frequencies8(files.L)
  /\ UNCHANGED <<T, wt_L, dout, din, dout_orig, din_orig, ci, p, q, L_buf,
                 files, tfm, pos, out, steps, uninit_read, untunneled>>

NextFreq == SymbolFrequencies \/ SymbolFrequenciesOverrun

SpecFreq == InitFreq /\ [][NextFreq]_vars

\* C7: for every byte sequence L, symbol_frequencies writes only inside C and
\* C[c] is the number of positions holding a symbol < c, for every c in L
C7_ByteAlphabetCorrect ==
  (pc = "freq_done" \/ pc = "crashed") =>
    /\ ~oob
    /\ \A x \in 1..Len(files.L) :
         At(C_freq, files.L[x]) =
           Cardinality({y \in 1..Len(files.L) : files.L[y] < files.L[x]})

\* ------------------------------------------- loading and then navigating
MaxM == 4
MaxOrig == 3
NavSym == 1

\* .din / .dout file format: MSB-first per byte, trailing bits of the last
\* byte are padding
PackBits(bits, pad) ==
  [j \in 1..((Len(bits) + 7) \div 8) |->
     RangeSum([b \in 0..7 |->
                 (IF 8 * (j - 1) + b + 1 <= Len(bits)
                  THEN bits[8 * (j - 1) + b + 1] ELSE pad) * (2 ^ (7 - b))],
              0, 7)]

\* rows j..i of a bitvector form the top of a column: a 1 at j and only 0s
\* in the rows j+1..i below it
ColumnFrom(bv, j, i) ==
  /\ At(bv, j) = 1
  /\ \A t \in (j + 1)..i : At(bv, t) = 0

\* data-model invariants (1)-(5) of an index: (1) both sentinels are set,
\* (2) the popcounts agree, (3) a row i in [0, m) with din[i] = 0 lies in an
\* entry column below its topmost row, (4) a row i in [0, m) with
\* dout[i+1] = 0 lies in an exit column that goes on below it, (5) the
\* LF-mapping of every row is at most m
InvariantsHold(idx) ==
  /\ Len(idx.L) >= 1
  /\ Len(idx.dout) = Len(idx.L) + 1
  /\ Len(idx.din) = Len(idx.L) + 1
  /\ idx.dout[Len(idx.dout)] = 1
  /\ idx.din[Len(idx.din)] = 1
  /\ popcount(idx.dout) = popcount(idx.din)
  /\ \A i \in 0..(Len(idx.L) - 1) :
       At(idx.din, i) = 0 => \E j \in 0..(i - 1) : ColumnFrom(idx.din, j, i)
  /\ \A i \in 0..(Len(idx.L) - 1) :
       At(idx.dout, i + 1) = 0 => \E j \in 0..i : ColumnFrom(idx.dout, j, i + 1)
  /\ \A i \in 0..(Len(idx.L) - 1) :
       /\ At(idx.L, i) < Len(idx.C)
       /\ At(idx.C, At(idx.L, i)) + inverse_select(idx.L, i).first <= Len(idx.L)

\* bytes whose count is written past the end of C
HighBytes == {254, 255}

\* complete side files of an index with sentinels and equal popcounts; .L is
\* over the small alphabet or a run of one high byte; the original size is
\* MaxOrig (the longest walk, of which the walks for the smaller sizes are
\* prefixes)
InitPfwg ==
  \E m \in 1..MaxM, osz \in {MaxOrig}, pad \in {0} :
    \E L \in [1..m -> 0..NavSym] \cup {[j \in 1..m |-> b] : b \in HighBytes},
       b_in \in [1..(m + 1) -> Bit],
       b_out \in [1..(m + 1) -> Bit] :
      /\ b_in[m + 1] = 1 /\ b_out[m + 1] = 1
      /\ popcount(b_in) = popcount(b_out)
      /\ files = [original_size |-> osz, L |-> L,
                  din |-> File(PackBits(b_in, pad)),
                  dout |-> File(PackBits(b_out, pad)), index |-> <<>>]
      /\ pc = "load"
      /\ T = <<>> /\ wt_L = <<>> /\ dout = <<>> /\ din = <<>>
      /\ dout_orig = <<>> /\ din_orig = <<>>
      /\ ci = 0 /\ p = 0 /\ q = 0 /\ L_buf = <<>>
      /\ tfm = NoIndex /\ pos = end /\ out = <<>>
      /\ steps = 0 /\ uninit_read = FALSE /\ oob = FALSE
      /\ C_freq = <<>> /\ untunneled = <<>>

NextPfwg ==
  ConstructFromPfwg \/ ConstructFromPfwgOverrun \/ NavStep \/ NavFault

SpecPfwg == InitPfwg /\ [][NextPfwg]_vars

\* C3: on an index with invariants (1)-(5) every position reached by
\* backward steps from end() has its row in [0, m), and the backward step from
\* it touches only in-range indices (arguments of select between 1 and the
\* popcount)
C3_InRange ==
  (pc = "ready" /\ ~oob /\ InvariantsHold(tfm)) =>
    (pos.i < Len(tfm.L) /\ AccessOK(tfm, pos))

\* C9: a defined backward step changes o only at a row with din = 0 (o becomes
\* the distance to the block's leading 1) or at an exit with dout[i+1] = 0
\* (o is added to i and reset); otherwise o is carried over unchanged
C9_OffsetFrame ==
  [][(MoreSteps /\ AccessOK(tfm, pos) /\ steps' = steps + 1) =>
       LET c == At(tfm.L, pos.i)
           lf == At(tfm.C, c) + Cardinality({j \in 1..pos.i : tfm.L[j] = c})
           k == Cardinality({j \in 1..(lf + 1) : tfm.din[j] = 1})
           entry == At(tfm.din, lf) = 0
           ex == Select1(tfm.dout, k)
           exit == At(tfm.dout, ex + 1) = 0
       IN /\ (~entry /\ ~exit) => (pos'.o = pos.o /\ pos'.i = ex)
          /\ (entry /\ ~exit) =>
               (pos'.o = lf - Select1(tfm.din, k) /\ pos'.i = ex)
          /\ (~entry /\ exit) => (pos'.o = 0 /\ pos'.i = ex + pos.o)
          /\ (entry /\ exit) =>
               (pos'.o = 0 /\ pos'.i = ex + lf - Select1(tfm.din, k))]_vars

\* C9 witness: after some steps a non-zero offset is pending and the next step
\* neither enters nor leaves a tunnel
C9_Witness ==
  /\ MoreSteps /\ steps >= 1
  /\ pos.o # 0
  /\ AccessOK(tfm, pos)
  /\ At(tfm.din, bs_lf(tfm, pos)) = 1
  /\ At(tfm.dout, Select1(tfm.dout, Rank1(tfm.din, bs_lf(tfm, pos) + 1)) + 1) = 1

\* ------------------------------------------------- loading damaged files
MaxLoadM == 8

LoadBytes == {0, 165, 255}

SideFiles ==
  {Missing} \cup {File(<<>>)} \cup {File(<<a>>) : a \in LoadBytes}
    \cup {File(<<a, b>>) : a \in LoadBytes, b \in LoadBytes}

InitLoad ==
  \E m \in 1..MaxLoadM, f_in \in SideFiles, f_out \in SideFiles,
     b \in {0, 255} :
    /\ files = [original_size |-> m, L |-> [j \in 1..m |-> b],
                din |-> f_in, dout |-> f_out, index |-> <<>>]
    /\ pc = "load"
    /\ T = <<>> /\ wt_L = <<>> /\ dout = <<>> /\ din = <<>>
    /\ dout_orig = <<>> /\ din_orig = <<>>
    /\ ci = 0 /\ p = 0 /\ q = 0 /\ L_buf = <<>>
    /\ tfm = NoIndex /\ pos = end /\ out = <<>>
    /\ steps = 0 /\ uninit_read = FALSE /\ oob = FALSE
    /\ C_freq = <<>> /\ untunneled = <<>>

NextLoad ==
  \/ ConstructFromPfwg \/ ConstructFromPfwgOverrun
  \/ ConstructFromPfwgNullStream
  \/ Serialize \/ Load

SpecLoad == InitLoad /\ [][NextLoad]_vars

\* the file exists and holds the ceil(n / 8) bytes of an n-bit vector
FileComplete(f, n) == f.present /\ Len(f.bytes) >= (n + 7) \div 8

\* C8: with a missing or short .din / .dout no index is returned
C8_LoadAborts ==
  (pc = "ready" \/ pc = "stored") =>
    /\ FileComplete(files.din, Len(files.L) + 1)
    /\ FileComplete(files.dout, Len(files.L) + 1)

\* ---------------------------------------------------- tfm_index_invert
MaxFile == 4
MaxTail == 6

\* size_t orig_size = 12156306
orig_size == 12156306

\* create_tfm(orig_size, L, din, dout): installs L, C, dout, din and binds
\* the supports; size() returns the size handed in
create_tfm(size, L, din_new, dout_new) ==
  construct_from_pfwg(size, L, din_new, dout_new)

\* files the generator leaves next to FILE: the tunneled BWT of FILE followed
\* by the terminator, bitvectors packed MSB-first
InitInvert ==
  \E n \in 1..MaxFile, k \in 1..MaxK, pad \in Bit :
    \E body \in [1..n -> 1..MaxSym] :
      \E bwt \in {BWT(Append(body, 0))},
         B \in {find_min_dbg(Append(body, 0), k)} :
        \E m \in {mark_prefix_intervals(bwt, B)} :
          \E t \in {RefCompact(bwt, m.dout, m.din)} :
            /\ T = Append(body, 0)
            /\ files = [original_size |-> n, L |-> t.L,
                        din |-> File(PackBits(t.din, pad)),
                        dout |-> File(PackBits(t.dout, pad)),
                        index |-> <<>>]
            /\ pc = "load_invert"
            /\ wt_L = <<>> /\ dout = <<>> /\ din = <<>>
            /\ dout_orig = <<>> /\ din_orig = <<>>
            /\ ci = 0 /\ p = 0 /\ q = 0 /\ L_buf = <<>>
            /\ tfm = NoIndex /\ pos = end /\ out = <<>>
            /\ steps = 0 /\ uninit_read = FALSE /\ oob = FALSE
            /\ C_freq = <<>> /\ untunneled = <<>>

\* construct_from_pfwg of tfm_index_invert.cpp: the size is the constant
ConstructFromPfwgInvert ==
  /\ pc = "load_invert"
  /\ files.din.present /\ files.dout.present
  /\ tfm' = create_tfm(orig_size, files.L,
               load_bitvector(files.din.bytes, Len(files.L) + 1),
               load_bitvector(files.dout.bytes, Len(files.L) + 1))
  /\ pc' = "untunnel"
  /\ pos' = end
  /\ UNCHANGED <<T, wt_L, dout, din, dout_orig, din_orig, ci, p, q, L_buf,
                 files, out, steps, uninit_read, oob, C_freq, untunneled>>

\* characters returned by the first n calls of backwardstep from ps, in call
\* order; shorter than n when a call would read out of range
RECURSIVE Emitted(_, _, _)
Emitted(idx, ps, n) ==
  IF n = 0 \/ ~AccessOK(idx, ps) THEN <<>>
  ELSE LET r == backwardstep(idx, ps,
                  Select1(idx.din, Rank1(idx.din, bs_lf(idx, ps) + 1)))
       IN <<r.c % 256>> \o Emitted(idx, [i |-> r.i, o |-> r.o], n - 1)

Reverse(s) == [j \in 1..Len(s) |-> s[Len(s) + 1 - j]]

\* a run of backward steps that stays in range visits positions (i, o) with
\* i < m and o <= m; after more steps than there are such positions it has
\* repeated one and stays in range for ever
CycleBound(idx) == (Len(idx.L) + 1) * (Len(idx.L) + 1) + 1

Min(a, b) == IF a < b THEN a ELSE b

\* untunnel: size() backward steps, call i fills original[size - i - 1], then
\* size() bytes are written; the model keeps the size of the output and its
\* last MaxTail bytes. A step that reads out of range is undefined: the run
\* faults, or goes on and stores what that call and each later call returns,
\* an indeterminate byte each
Untunnel ==
  /\ pc = "untunnel"
  /\ LET take == Min(tfm.text_len, MaxTail)
         walk == Min(tfm.text_len, CycleBound(tfm) + MaxTail)
     IN \E e \in {Emitted(tfm, end, walk)} :
          IF Len(e) = walk
          THEN /\ untunneled' = [size |-> tfm.text_len,
                                 tail |-> Reverse(SubSeq(e, 1, take))]
               /\ steps' = tfm.text_len
               /\ pc' = "written"
               /\ oob' = oob
          ELSE /\ oob' = TRUE
               /\ \/ /\ pc' = "crashed"
                     /\ UNCHANGED <<untunneled, steps>>
                  \/ /\ untunneled' =
                          [size |-> tfm.text_len,
                           tail |-> Reverse([j \in 1..take |->
                                      IF j <= Len(e) THEN e[j]
                                      ELSE Indeterminate])]
                     /\ steps' = tfm.text_len
                     /\ pc' = "written"
  /\ UNCHANGED <<T, wt_L, dout, din, dout_orig, din_orig, ci, p, q, L_buf,
                 files, tfm, pos, out, uninit_read, C_freq>>

NextInvert == ConstructFromPfwgInvert \/ Untunnel

SpecInvert == InitInvert /\ [][NextInvert]_vars

\* C2: FILE.untunneled has as many bytes as FILE and the same bytes; the
\* number of backward steps and of bytes written is the length of FILE
C2_RoundTrip ==
  pc = "written" =>
    /\ untunneled.size = files.original_size
    /\ steps = files.original_size
    /\ untunneled.tail = SubSeq(T, 1, Len(T) - 1)

====
